---- MODULE Spec2Model ----
(***************************************************************************)
(* Model of src/app.py: a Streamlit page that collects metadata, lets the  *)
(* user upload audio, transcribe a time range through the Gemini API, add  *)
(* and delete segments and edit the annotation document as JSON.           *)
(*                                                                         *)
(* One action is one user interaction: the script run that handles the     *)
(* click, followed by the rerun that st.rerun() starts when the handler    *)
(* calls it.  The actions name their intermediate values with              *)
(* \E x \in {e}, which has TLC compute e once.                             *)
(*                                                                         *)
(* Value conventions.  A Python dict is a function from key strings (a     *)
(* record), a Python list a sequence, so {} and [] are both <<>> (both are *)
(* falsy in Python).  An optional value is a sequence of length <= 1:      *)
(* None is <<>>, a present value x is <<x>>.  A float number of seconds is *)
(* the integer number of milliseconds.                                     *)
(***************************************************************************)
EXTENDS Integers, Sequences, FiniteSets, TLC

VARIABLES
    session_state,   \* st.session_state: metadata, speakers, segments,
                     \* page_state, current_audio, transcription_content
    uploaded_file,   \* the file held by the st.file_uploader widget
    secrets,         \* st.secrets["GEMINI_API_KEY"], None when not configured
    uuid_count,      \* number of uuid.uuid4() values drawn so far
    posted,          \* requests.post calls issued by the last interaction
    shown,           \* segments rendered under "Annotated Segments" by the last run
    final_json,      \* document built by the last run (None when not built)
    widgets,         \* the widgets the last run put on the page
    message,         \* st.error/info/warning/success reported by the handler
    last             \* the last interaction and its inputs

vars == <<session_state, uploaded_file, secrets, uuid_count, posted, shown,
          final_json, widgets, message, last>>

----------------------------------------------------------------------------
(* Bounds of the model *)

MaxSegments == 2    \* segments the model keeps in the list at a time
MaxUuid == 2        \* uuid4() values the model draws in a session

----------------------------------------------------------------------------
(* Python values *)

None == <<>>
Some(x) == <<x>>

\* bool(x) of a dict, list or optional value
Truthy(x) == DOMAIN x # {}

\* d.get(k, default)
Get(d, k, default) == IF k \in DOMAIN d THEN d[k] ELSE default

Msg(level, text) == [level |-> level, text |-> text]
NoMsg == Msg("", "")

----------------------------------------------------------------------------
(* float(text) of the two st.text_input time fields.  The texts the model  *)
(* enters: decimal numbers (one written with trailing zeros) and one text  *)
(* that float() rejects with ValueError.                                   *)

\* the (start, end) pairs the model enters: three ranges with start < end
\* (one of them with a negative start), an inverted one, an empty one and
\* one that is not numeric
TimeRanges ==
    {<<"0.0", "5.000">>, <<"2.0", "5.000">>, <<"-1.0", "2.0">>,
     <<"5.000", "2.0">>, <<"2.0", "2.0">>, <<"abc", "2.0">>}

IsNumeric(text) == text \in {"-1.0", "0.0", "2.0", "5.000"}

ParseFloat(text) ==
    CASE text = "-1.0" -> -1000
      [] text = "0.0" -> 0
      [] text = "2.0" -> 2000
      [] text = "5.000" -> 5000

\* float.__repr__, which json.dumps writes for a float
FloatRepr(ms) ==
    CASE ms = -1000 -> "-1.0"
      [] ms = 0 -> "0.0"
      [] ms = 2000 -> "2.0"
      [] ms = 5000 -> "5.0"

\* the number a JSON number literal denotes (json.loads)
ParseNumber(text) ==
    CASE text = "-1.0" -> -1000
      [] text = "0.0" -> 0
      [] text = "2.0" -> 2000
      [] text = "5.0" -> 5000

----------------------------------------------------------------------------
(* JSON text.  The text of the editor is modelled after lexing: a sequence *)
(* of tokens <<kind, text>>; the whitespace json.dumps(indent=4) writes    *)
(* between tokens is insignificant to json.loads and is left out.          *)

LBrace == <<"{", "">>
RBrace == <<"}", "">>
LBracket == <<"[", "">>
RBracket == <<"]", "">>
Comma == <<",", "">>
Colon == <<":", "">>
StrTok(s) == <<"str", s>>
NumTok(text) == <<"num", text>>

\* The dict and list types the program puts in final_json, as json.dumps
\* meets them: for each kind of dict its keys in insertion order, each with
\* the shape of its value (str, num, strs: list of str, obj: dict,
\* objs: list of dict) and the kind of the dicts in it.
Schema(kind) ==
    CASE kind = "doc" -> << <<"type", "obj", "type">>, <<"value", "obj", "value">> >>
      [] kind = "type" -> << <<"name", "str", "">>, <<"version", "str", "">> >>
      [] kind = "value" ->
            << <<"languages", "strs", "">>,
               <<"languageInfo", "obj", "languageInfo">>,
               <<"domainInfo", "obj", "domainInfo">>,
               <<"conventionInfo", "obj", "conventionInfo">>,
               <<"annotatorInfo", "obj", "annotatorInfo">>,
               <<"speakers", "objs", "speaker">>,
               <<"segments", "objs", "segment">>,
               <<"taskStatus", "obj", "taskStatus">> >>
      [] kind = "languageInfo" ->
            << <<"spokenLanguages", "strs", "">>,
               <<"speakerDominantVarieties", "objs", "variety">> >>
      [] kind = "variety" ->
            << <<"languageLocale", "str", "">>,
               <<"languageVariety", "strs", "">>,
               <<"otherLanguageInfluence", "strs", "">> >>
      [] kind = "domainInfo" ->
            << <<"domainVersion", "str", "">>, <<"domainList", "objs", "domain">> >>
      [] kind = "domain" -> << <<"domain", "str", "">>, <<"topicList", "strs", "">> >>
      [] kind = "conventionInfo" ->
            << <<"masterConventionName", "str", "">>, <<"customAddendum", "str", "">> >>
      [] kind = "annotatorInfo" ->
            << <<"loginEncrypted", "str", "">>, <<"annotatorId", "str", "">> >>
      [] kind = "speaker" ->
            << <<"speakerId", "str", "">>, <<"gender", "str", "">>,
               <<"genderSource", "str", "">>, <<"speakerNativity", "str", "">>,
               <<"speakerNativitySource", "str", "">>, <<"speakerRole", "str", "">>,
               <<"speakerRoleSource", "str", "">>, <<"languages", "strs", "">> >>
      [] kind = "segment" ->
            << <<"start", "num", "">>, <<"end", "num", "">>,
               <<"segmentId", "str", "">>, <<"primaryType", "str", "">>,
               <<"loudnessLevel", "str", "">>, <<"language", "str", "">>,
               <<"segmentLanguages", "strs", "">>, <<"speakerId", "str", "">>,
               <<"transcriptionData", "obj", "transcriptionData">> >>
      [] kind = "transcriptionData" -> << <<"content", "str", "">> >>
      [] kind = "taskStatus" ->
            << <<"segmentation", "obj", "workflow">>,
               <<"speakerId", "obj", "workflow">>,
               <<"transcription", "obj", "workflow">> >>
      [] kind = "workflow" ->
            << <<"workflowStatus", "str", "">>, <<"workflowType", "str", "">> >>

\* the token sequences of `parts`, separated by commas
RECURSIVE Joined(_)
Joined(parts) ==
    IF parts = <<>> THEN <<>>
    ELSE IF Len(parts) = 1 THEN parts[1]
    ELSE parts[1] \o <<Comma>> \o Joined(Tail(parts))

\* json.dumps of a value of the given shape
RECURSIVE DumpValue(_, _, _)
DumpValue(shape, kind, v) ==
    CASE shape = "str" -> <<StrTok(v)>>
      [] shape = "num" -> <<NumTok(FloatRepr(v))>>
      [] shape = "strs" ->
            <<LBracket>> \o Joined([i \in 1..Len(v) |-> <<StrTok(v[i])>>]) \o <<RBracket>>
      [] shape = "objs" ->
            <<LBracket>> \o Joined([i \in 1..Len(v) |-> DumpValue("obj", kind, v[i])])
                \o <<RBracket>>
      [] shape = "obj" ->
            LET fields == SelectSeq(Schema(kind), LAMBDA f : f[1] \in DOMAIN v)
            IN <<LBrace>>
                \o Joined([i \in 1..Len(fields) |->
                        <<StrTok(fields[i][1]), Colon>>
                            \o DumpValue(fields[i][2], fields[i][3], v[fields[i][1]])])
                \o <<RBrace>>

\* json.dumps(final_json, indent=4)
Dumps(doc) == DumpValue("obj", "doc", doc)

\* Result of parsing: ok is FALSE for json.JSONDecodeError; i is the index
\* of the first token not consumed.
ParseOk(v, i) == [ok |-> TRUE, val |-> v, i |-> i]
ParseFail == [ok |-> FALSE, val |-> <<>>, i |-> 0]

TokKind(t, i) == IF i <= Len(t) THEN t[i][1] ELSE "eof"

\* the JSON value that starts at token i (json.JSONDecoder.raw_decode)
RECURSIVE ParseValue(_, _), ParseMembers(_, _, _), ParseElements(_, _, _)
ParseValue(t, i) ==
    CASE TokKind(t, i) = "str" -> ParseOk(t[i][2], i + 1)
      [] TokKind(t, i) = "num" -> ParseOk(ParseNumber(t[i][2]), i + 1)
      [] TokKind(t, i) = "{" ->
            IF TokKind(t, i + 1) = "}" THEN ParseOk(<<>>, i + 2)
            ELSE ParseMembers(t, i + 1, <<>>)
      [] TokKind(t, i) = "[" ->
            IF TokKind(t, i + 1) = "]" THEN ParseOk(<<>>, i + 2)
            ELSE ParseElements(t, i + 1, <<>>)
      [] OTHER -> ParseFail

\* the members of a JSON object from token i on; a repeated key keeps the
\* last value
ParseMembers(t, i, acc) ==
    IF TokKind(t, i) = "str" /\ TokKind(t, i + 1) = ":"
    THEN LET r == ParseValue(t, i + 2)
             d == (t[i][2] :> r.val) @@ acc
         IN IF ~r.ok THEN ParseFail
            ELSE IF TokKind(t, r.i) = "," THEN ParseMembers(t, r.i + 1, d)
            ELSE IF TokKind(t, r.i) = "}" THEN ParseOk(d, r.i + 1)
            ELSE ParseFail
    ELSE ParseFail

\* the elements of a JSON array from token i on
ParseElements(t, i, acc) ==
    LET r == ParseValue(t, i)
    IN IF ~r.ok THEN ParseFail
       ELSE IF TokKind(t, r.i) = "," THEN ParseElements(t, r.i + 1, Append(acc, r.val))
       ELSE IF TokKind(t, r.i) = "]" THEN ParseOk(Append(acc, r.val), r.i + 1)
       ELSE ParseFail

\* json.loads(text): one value and nothing after it
Loads(t) ==
    LET r == ParseValue(t, 1)
    IN IF r.ok /\ r.i = Len(t) + 1 THEN r ELSE ParseFail

----------------------------------------------------------------------------
(* Session state and the metadata form *)

\* lines 20-31: the session state of a new session
InitialSessionState ==
    [metadata |-> <<>>,
     speakers |-> <<>>,
     segments |-> <<>>,
     page_state |-> "metadata_input",
     current_audio |-> None,
     transcription_content |-> ""]

\* str(uuid.uuid4()): the n-th value drawn in the session; no two are equal
Uuid(n) == "uuid-" \o ToString(n)

\* What the model types into the metadata form: the "Short Name / Symbol"
\* and one "Speaker ID" per head (head_count is the length of the list; a
\* blank id makes the form draw a uuid).
Forms == {[lang_short |-> "en_NZ", speaker_ids |-> <<"S1", "S2">>]}

\* number of uuid4() values the form draws: one per blank Speaker ID
BlankIds(form, upto) == Cardinality({j \in 1..upto : form.speaker_ids[j] = ""})

\* lines 228-249: speakers_input, every field but the id left at its default
FormSpeakers(form, drawn) ==
    [i \in 1..Len(form.speaker_ids) |->
        [speakerId |-> IF form.speaker_ids[i] # "" THEN form.speaker_ids[i]
                       ELSE Uuid(drawn + BlankIds(form, i)),
         gender |-> "Female",
         genderSource |-> "Annotator",
         speakerNativity |-> "Native",
         speakerNativitySource |-> "Annotator",
         speakerRole |-> "Customer",
         speakerRoleSource |-> "Annotator",
         languages |-> <<form.lang_short>>]]

\* lines 260-270: the metadata dict, every field but lang_short at its default
FormMetadata(form) ==
    [type |-> [name |-> "MULTI_SPEAKER_LONG_FORM_TRANSCRIPTION", version |-> "3.1"],
     languageInfo |->
        [spokenLanguages |-> <<"en_NZ">>,
         speakerDominantVarieties |->
            <<[languageLocale |-> form.lang_short,
               languageVariety |-> <<>>,
               otherLanguageInfluence |-> <<>>]>>],
     domainInfo |->
        [domainVersion |-> "1.0",
         domainList |-> <<[domain |-> "Call-center", topicList |-> <<"Banking">>]>>],
     annotatorInfo |-> [loginEncrypted |-> "", annotatorId |-> "t5fb5aa2"],
     conventionInfo |->
        [masterConventionName |-> "awsTranscriptionGuidelines_en_US_3.1",
         customAddendum |-> "en_NZ_1.0"],
     internalLanguageCode |-> form.lang_short]

----------------------------------------------------------------------------
(* The parts of annotation_page every run executes *)

\* the files the model uploads: two of the same name, one that pydub
\* cannot decode
Files ==
    {[name |-> "a.wav", bytes |-> "riff-1"],
     [name |-> "a.wav", bytes |-> "riff-2"],
     [name |-> "b.wav", bytes |-> "junk"]}

\* AudioSegment.from_file(io.BytesIO(b)) returns rather than raises
Decodable(b) == b # "junk"

\* lines 295-300: current_audio follows the uploader by file name
SyncAudio(ss, up) ==
    IF up # None
       /\ (ss.current_audio = None \/ ss.current_audio[1].name # up[1].name)
    THEN [ss EXCEPT !.current_audio = Some([name |-> up[1].name, bytes |-> up[1].bytes])]
    ELSE ss

\* the sort key of line 443: float(x.get('start', 0))
StartKey(seg) == Get(seg, "start", 0)

\* sorted(segs, key=...): stable, ascending
RECURSIVE Sorted(_)
Sorted(segs) ==
    IF segs = <<>> THEN <<>>
    ELSE LET rest == Sorted(SubSeq(segs, 1, Len(segs) - 1))
             x == segs[Len(segs)]
             before == SelectSeq(rest, LAMBDA y : StartKey(y) <= StartKey(x))
             after == SelectSeq(rest, LAMBDA y : StartKey(y) > StartKey(x))
         IN before \o <<x>> \o after

\* SortSegments that leaves the list as stored
SortSegments_Skip(ss) == ss

\* lines 439-444: the stored list is replaced by the sorted one
SortSegments(ss) ==
    IF Truthy(ss.segments) THEN [ss EXCEPT !.segments = Sorted(ss.segments)] ELSE ss

\* lines 446-448: the expanders rendered, one per stored segment
Rendered(ss) == ss.segments

TaskStatus ==
    [segmentation |-> [workflowStatus |-> "COMPLETE", workflowType |-> "LABEL"],
     speakerId |-> [workflowStatus |-> "COMPLETE", workflowType |-> "LABEL"],
     transcription |-> [workflowStatus |-> "COMPLETE", workflowType |-> "LABEL"]]

\* lines 455-468: final_json, None when the editor block is skipped
BuildFinalJson(ss) ==
    IF Truthy(ss.metadata) /\ Truthy(ss.speakers)
    THEN Some([type |-> ss.metadata.type,
               value |->
                  [languages |-> <<ss.metadata.internalLanguageCode>>,
                   languageInfo |-> ss.metadata.languageInfo,
                   domainInfo |-> ss.metadata.domainInfo,
                   conventionInfo |-> ss.metadata.conventionInfo,
                   annotatorInfo |-> ss.metadata.annotatorInfo,
                   speakers |-> ss.speakers,
                   segments |-> ss.segments,
                   taskStatus |-> TaskStatus]])
    ELSE None

\* A run of the script in which no button is clicked (what st.rerun()
\* starts): lines 493-499 route by page_state.
Rerun(ss, up) ==
    IF ss.page_state = "annotation" THEN SortSegments(SyncAudio(ss, up)) ELSE ss

ShownBy(ss) == IF ss.page_state = "annotation" THEN Rendered(ss) ELSE <<>>
DocBy(ss) == IF ss.page_state = "annotation" THEN BuildFinalJson(ss) ELSE None

\* The widgets a run leaves on the page when it ends with session state ss
\* and the uploader holding up; `stopped`: the run ended in st.stop() at
\* line 365, before the segment form.
WidgetsBy(ss, up, stopped) ==
    IF ss.page_state = "metadata_input" THEN {"metadata_form"}
    ELSE {"back", "uploader"}
         \cup (IF up # None THEN {"transcribe"} ELSE {})
         \cup (IF up # None /\ ~stopped THEN {"segment_form"} ELSE {})
         \cup (IF ~stopped /\ Truthy(ss.segments) THEN {"delete"} ELSE {})
         \cup (IF ~stopped /\ BuildFinalJson(ss) # None THEN {"json_editor", "download"}
               ELSE {})

Interaction(op, arg) == [op |-> op, arg |-> arg]

----------------------------------------------------------------------------
(* Initial state *)

Init ==
    /\ session_state = InitialSessionState
    /\ uploaded_file = None
    /\ secrets \in {None, Some("key")}
    /\ uuid_count = 0
    /\ posted = 0
    /\ shown = <<>>
    /\ final_json = None
    /\ widgets = WidgetsBy(InitialSessionState, None, FALSE)
    /\ message = NoMsg
    /\ last = Interaction("start", <<>>)

----------------------------------------------------------------------------
(* Metadata page *)

\* lines 258-274: "Save Metadata and Proceed to Annotation", then the rerun.
\* The uploader is a new widget on the annotation page: it holds no file.
SubmitMetadata(form) ==
    /\ session_state.page_state = "metadata_input"
    /\ "metadata_form" \in widgets
    /\ uuid_count + BlankIds(form, Len(form.speaker_ids)) <= MaxUuid
    /\ \E saved \in {[session_state EXCEPT
                        !.metadata = FormMetadata(form),
                        !.speakers = FormSpeakers(form, uuid_count),
                        !.page_state = "annotation"]} :
       \E after \in {Rerun(saved, None)} :
          /\ session_state' = after
          /\ shown' = ShownBy(after)
          /\ final_json' = DocBy(after)
          /\ widgets' = WidgetsBy(after, None, FALSE)
    /\ uuid_count' = uuid_count + BlankIds(form, Len(form.speaker_ids))
    /\ uploaded_file' = None
    /\ posted' = 0
    /\ message' = Msg("success", "Metadata saved successfully! Proceed to the annotation step below.")
    /\ last' = Interaction("submit", form)
    /\ UNCHANGED secrets

\* lines 496-498: "Back to Metadata", then the rerun shows the form
BackToMetadata ==
    /\ session_state.page_state = "annotation"
    /\ "back" \in widgets
    /\ \E after \in {Rerun([session_state EXCEPT !.page_state = "metadata_input"], None)} :
          /\ session_state' = after
          /\ shown' = ShownBy(after)
          /\ final_json' = DocBy(after)
          /\ widgets' = WidgetsBy(after, None, FALSE)
    /\ uploaded_file' = None
    /\ posted' = 0
    /\ message' = NoMsg
    /\ last' = Interaction("back", <<>>)
    /\ UNCHANGED <<secrets, uuid_count>>

\* lines 293-302: the user puts a file in the uploader, or takes it out
Upload(up) ==
    /\ session_state.page_state = "annotation"
    /\ "uploader" \in widgets
    /\ up # uploaded_file
    /\ \E after \in {Rerun(session_state, up)} :
          /\ session_state' = after
          /\ shown' = ShownBy(after)
          /\ final_json' = DocBy(after)
          /\ widgets' = WidgetsBy(after, up, FALSE)
    /\ uploaded_file' = up
    /\ posted' = 0
    /\ message' = NoMsg
    /\ last' = Interaction("upload", up)
    /\ UNCHANGED <<secrets, uuid_count>>

----------------------------------------------------------------------------
(* Transcription *)

\* What the Gemini endpoint answers to the one requests.post of line 93:
\* no answer within the timeout, a connection failure, or an HTTP response.
TextBody(raw) == [candidates |-> <<[content |-> [parts |-> <<[text |-> raw]>>]]>>]

JsonBodies ==
    {<<>>,                                                 \* {}: no 'candidates'
     [candidates |-> <<>>],
     [candidates |-> <<[finishReason |-> "SAFETY"]>>],     \* no 'content'
     [candidates |-> <<[content |-> [parts |-> <<>>]]>>]}
    \cup {TextBody(raw) :
            raw \in {"hello", " hello\n", "[SILENCE]", "[NOISE]", "[NO_CONTENT]"}}

Responses ==
    {[kind |-> "timeout"], [kind |-> "neterr"],
     [kind |-> "http", status_code |-> 429, text |-> "quota exceeded", json |-> <<>>]}
    \cup {[kind |-> "http", status_code |-> 200, text |-> "", json |-> j] : j \in JsonBodies}

\* str.strip()
Strip(text) == IF text = " hello\n" THEN "hello" ELSE text

\* HandleResponse that returns an empty transcript for a status other than 200
HandleResponse_ErrorAsEmpty(response) ==
    IF response.status_code = 200
    THEN LET result == response.json
         IN IF ~Truthy(Get(result, "candidates", <<>>))
            THEN [result |-> None,
                  message |-> Msg("error", "Gemini API Error: No candidates returned.")]
            ELSE LET content == Get(result.candidates[1], "content", <<>>)
                     parts == Get(content, "parts", <<>>)
                 IN IF Truthy(parts)
                    THEN [result |-> Some(Strip(Get(parts[1], "text", ""))),
                          message |-> NoMsg]
                    ELSE [result |-> Some("[NO_CONTENT]"), message |-> NoMsg]
    ELSE [result |-> Some(""), message |-> Msg("error", "Gemini API Error: status and body")]

\* HandleResponse that reports a candidate without parts as an error
HandleResponse_NoPartsIsError(response) ==
    IF response.status_code = 200
    THEN LET result == response.json
         IN IF ~Truthy(Get(result, "candidates", <<>>))
            THEN [result |-> None,
                  message |-> Msg("error", "Gemini API Error: No candidates returned.")]
            ELSE LET content == Get(result.candidates[1], "content", <<>>)
                     parts == Get(content, "parts", <<>>)
                 IN IF Truthy(parts)
                    THEN [result |-> Some(Strip(Get(parts[1], "text", ""))),
                          message |-> NoMsg]
                    ELSE [result |-> None,
                          message |-> Msg("error", "Gemini API Error: No candidates returned.")]
    ELSE [result |-> None, message |-> Msg("error", "Gemini API Error: status and body")]

\* lines 95-111: the handling of the HTTP response
HandleResponse(response) ==
    IF response.status_code = 200
    THEN LET result == response.json
         IN IF ~Truthy(Get(result, "candidates", <<>>))
            THEN [result |-> None,
                  message |-> Msg("error", "Gemini API Error: No candidates returned.")]
            ELSE LET content == Get(result.candidates[1], "content", <<>>)
                     parts == Get(content, "parts", <<>>)
                 IN IF Truthy(parts)
                    THEN [result |-> Some(Strip(Get(parts[1], "text", ""))),
                          message |-> NoMsg]
                    ELSE [result |-> Some("[NO_CONTENT]"), message |-> NoMsg]
    ELSE [result |-> None, message |-> Msg("error", "Gemini API Error: status and body")]

\* lines 41-121: transcribe_audio_segment_with_gemini; `response` is the
\* service's answer to the request if one is issued.  The slice and its WAV
\* export are local to the call and change no state.
TranscribeAudioSegmentWithGemini(full_audio_bytes, start_time, end_time, api_key, response) ==
    IF ~Decodable(full_audio_bytes)
    THEN [result |-> None, posted |-> 0,
          message |-> Msg("error", "Error during transcription")]
    ELSE IF response.kind = "timeout"
    THEN [result |-> None, posted |-> 1, message |-> Msg("error", "Request timed out.")]
    ELSE IF response.kind = "neterr"
    THEN [result |-> None, posted |-> 1,
          message |-> Msg("error", "Network error during transcription")]
    ELSE [posted |-> 1] @@ HandleResponse(response)

\* lines 371-386: what the page stores for the value the call returned
StoreTranscription(ss, transcription) ==
    IF transcription[1] = "[SILENCE]"
    THEN [ss |-> [ss EXCEPT !.transcription_content = ""],
          message |-> Msg("info", "No speech detected in the specified time segment.")]
    ELSE IF transcription[1] = "[NOISE]"
    THEN [ss |-> [ss EXCEPT !.transcription_content = "[NOISE]"],
          message |-> Msg("info", "Only background noise/music detected in the segment.")]
    ELSE IF transcription[1] = "[NO_CONTENT]"
    THEN [ss |-> [ss EXCEPT !.transcription_content = ""],
          message |-> Msg("warning", "No content was returned from the API for this segment.")]
    ELSE [ss |-> [ss EXCEPT !.transcription_content = transcription[1]],
          message |-> Msg("success", "Transcribed segment successfully!")]

\* lines 356-359: the checks of the Transcribe button on the time range
TranscribeRangeError(start_float, end_float) ==
    IF start_float >= end_float THEN Some("Start time must be less than end time!")
    ELSE IF start_float < 0 THEN Some("Start time cannot be negative!")
    ELSE None

\* TranscribeHandler that looks the key up only after the call has returned
TranscribeHandler_KeyAfterCall(ss, start_time, end_time, api_key, response) ==
    IF ~IsNumeric(start_time) \/ ~IsNumeric(end_time)
    THEN [ss |-> ss, posted |-> 0, transcription |-> None, next |-> "continue",
          message |-> Msg("error", "Please enter valid numeric values for start and end times")]
    ELSE LET start_float == ParseFloat(start_time)
             end_float == ParseFloat(end_time)
             bad == TranscribeRangeError(start_float, end_float)
         IN IF bad # None
            THEN [ss |-> ss, posted |-> 0, transcription |-> None, next |-> "continue",
                  message |-> Msg("error", bad[1])]
            ELSE LET call == TranscribeAudioSegmentWithGemini(
                                ss.current_audio[1].bytes, start_float, end_float,
                                "", response)
                 IN IF api_key = None
                    THEN [ss |-> ss, posted |-> call.posted, transcription |-> None,
                          next |-> "stop",
                          message |-> Msg("error", "GEMINI_API_KEY not found. Please add it to your Streamlit secrets.")]
                    ELSE IF call.result # None
                    THEN LET stored == StoreTranscription(ss, call.result)
                         IN [ss |-> stored.ss, posted |-> call.posted,
                             transcription |-> call.result, next |-> "rerun",
                             message |-> stored.message]
                    ELSE [ss |-> ss, posted |-> call.posted, transcription |-> None,
                          next |-> "continue", message |-> call.message]

\* lines 351-390: the handler of the Transcribe button.  next is what
\* follows it: the rest of the run ("continue"), st.stop() or st.rerun().
TranscribeHandler(ss, start_time, end_time, api_key, response) ==
    IF ~IsNumeric(start_time) \/ ~IsNumeric(end_time)
    THEN [ss |-> ss, posted |-> 0, transcription |-> None, next |-> "continue",
          message |-> Msg("error", "Please enter valid numeric values for start and end times")]
    ELSE LET start_float == ParseFloat(start_time)
             end_float == ParseFloat(end_time)
             bad == TranscribeRangeError(start_float, end_float)
         IN IF bad # None
            THEN [ss |-> ss, posted |-> 0, transcription |-> None, next |-> "continue",
                  message |-> Msg("error", bad[1])]
            ELSE IF api_key = None
            THEN [ss |-> ss, posted |-> 0, transcription |-> None, next |-> "stop",
                  message |-> Msg("error", "GEMINI_API_KEY not found. Please add it to your Streamlit secrets.")]
            ELSE LET call == TranscribeAudioSegmentWithGemini(
                                ss.current_audio[1].bytes, start_float, end_float,
                                api_key[1], response)
                 IN IF call.result # None
                    THEN LET stored == StoreTranscription(ss, call.result)
                         IN [ss |-> stored.ss, posted |-> call.posted,
                             transcription |-> call.result, next |-> "rerun",
                             message |-> stored.message]
                    ELSE [ss |-> ss, posted |-> call.posted, transcription |-> None,
                          next |-> "continue", message |-> call.message]

\* The Transcribe button is clicked with the two time fields as given.
\* `answer` is what the service answers: a response when the run issues a
\* request, None when it issues none.
Transcribe(start_time, end_time, answer) ==
    /\ session_state.page_state = "annotation"
    /\ "transcribe" \in widgets
    /\ \E entered \in {SyncAudio(session_state, uploaded_file)} :
       \E probe \in {TranscribeHandler(entered, start_time, end_time, secrets,
                                        [kind |-> "timeout"])} :
          /\ (answer # None) <=> (probe.posted = 1)
          /\ \E h \in {IF answer = None THEN probe
                        ELSE TranscribeHandler(entered, start_time, end_time, secrets,
                                               answer[1])} :
             \E after \in {CASE h.next = "rerun" -> Rerun(h.ss, uploaded_file)
                              [] h.next = "stop" -> h.ss
                              [] h.next = "continue" -> SortSegments(h.ss)} :
                /\ session_state' = after
                /\ shown' = IF h.next = "stop" THEN <<>> ELSE ShownBy(after)
                /\ final_json' = IF h.next = "stop" THEN None ELSE DocBy(after)
                /\ widgets' = WidgetsBy(after, uploaded_file, h.next = "stop")
                /\ posted' = h.posted
                /\ message' = h.message
                /\ last' = Interaction("transcribe",
                              [start_time |-> start_time, end_time |-> end_time,
                               answer |-> answer, transcription |-> h.transcription])
    /\ UNCHANGED <<uploaded_file, secrets, uuid_count>>

----------------------------------------------------------------------------
(* Segments *)

\* lines 400-405: what the Speaker select box returns when the user picks
\* its pick-th option (the last one if there are fewer); None without speakers
SelectedSpeaker(ss, pick) ==
    IF Truthy(ss.speakers)
    THEN Some(ss.speakers[IF pick <= Len(ss.speakers) THEN pick
                          ELSE Len(ss.speakers)].speakerId)
    ELSE None

\* AddRangeError with > for >=: a range with start = end passes
AddRangeError_AcceptsEmpty(start_float, end_float) ==
    IF start_float > end_float THEN Some("Start time must be less than end time!")
    ELSE None

\* lines 417-418: the check of the Add Segment button on the time range
AddRangeError(start_float, end_float) ==
    IF start_float >= end_float THEN Some("Start time must be less than end time!")
    ELSE None

\* NewSegment with the two times stored in each other's field
NewSegment_SwappedTimes(ss, start_float, end_float, segment_id, primary_type, loudness_level, selected_speaker_id, transcription) ==
    LET lang_code == Get(ss.metadata, "internalLanguageCode", "en_US")
    IN [start |-> end_float,
        end |-> start_float,
        segmentId |-> segment_id,
        primaryType |-> primary_type,
        loudnessLevel |-> loudness_level,
        language |-> lang_code,
        segmentLanguages |-> <<lang_code>>,
        speakerId |-> selected_speaker_id,
        transcriptionData |-> [content |-> transcription]]

\* lines 420-431: new_segment
NewSegment(ss, start_float, end_float, segment_id, primary_type, loudness_level, selected_speaker_id, transcription) ==
    LET lang_code == Get(ss.metadata, "internalLanguageCode", "en_US")
    IN [start |-> start_float,
        end |-> end_float,
        segmentId |-> segment_id,
        primaryType |-> primary_type,
        loudnessLevel |-> loudness_level,
        language |-> lang_code,
        segmentLanguages |-> <<lang_code>>,
        speakerId |-> selected_speaker_id,
        transcriptionData |-> [content |-> transcription]]

\* lines 409-437: the handler of the Add Segment button; `transcription` is
\* the value of the text area, segment_id the uuid drawn if a segment is made
AddSegmentHandler(ss, start_time, end_time, primary_type, loudness_level, selected_speaker_id, transcription, segment_id) ==
    IF selected_speaker_id = None
    THEN [ss |-> ss, next |-> "continue",
          message |-> Msg("error", "Cannot add segment. Please define at least one speaker in the metadata.")]
    ELSE IF ~IsNumeric(start_time) \/ ~IsNumeric(end_time)
    THEN [ss |-> ss, next |-> "continue",
          message |-> Msg("error", "Please enter valid numeric values for start and end times")]
    ELSE LET start_float == ParseFloat(start_time)
             end_float == ParseFloat(end_time)
             bad == AddRangeError(start_float, end_float)
         IN IF bad # None
            THEN [ss |-> ss, next |-> "continue", message |-> Msg("error", bad[1])]
            ELSE [ss |-> [ss EXCEPT
                            !.segments = Append(@,
                                NewSegment(ss, start_float, end_float, segment_id,
                                           primary_type, loudness_level,
                                           selected_speaker_id[1], transcription)),
                            !.transcription_content = ""],
                  next |-> "rerun",
                  message |-> Msg("success", "Segment added successfully!")]

\* The Add Segment button is clicked with the form filled as `inp` says:
\* the two time fields, the two select boxes, the option picked in the
\* Speaker box and the text typed into "Transcription Content" (None: the
\* area is left at its value, the pending transcription).  A segment is
\* made only while the model's bounds leave room for it.
AddSegment(inp) ==
    /\ session_state.page_state = "annotation"
    /\ "segment_form" \in widgets
    /\ \E entered \in {SyncAudio(session_state, uploaded_file)} :
       \E selected_speaker_id \in {SelectedSpeaker(entered, inp.speaker_pick)} :
       \E transcription \in {IF inp.typed = None THEN entered.transcription_content
                              ELSE inp.typed[1]} :
       \E h \in {AddSegmentHandler(entered, inp.start_time, inp.end_time,
                                    inp.primary_type, inp.loudness_level,
                                    selected_speaker_id, transcription,
                                    Uuid(uuid_count + 1))} :
       \E after \in {IF h.next = "rerun" THEN Rerun(h.ss, uploaded_file)
                      ELSE SortSegments(h.ss)} :
          /\ h.next = "rerun" =>
                Len(session_state.segments) < MaxSegments /\ uuid_count < MaxUuid
          /\ session_state' = after
          /\ shown' = ShownBy(after)
          /\ final_json' = DocBy(after)
          /\ widgets' = WidgetsBy(after, uploaded_file, FALSE)
          /\ uuid_count' = IF h.next = "rerun" THEN uuid_count + 1 ELSE uuid_count
          /\ message' = h.message
          /\ last' = Interaction("add",
                        [start_time |-> inp.start_time, end_time |-> inp.end_time,
                         primary_type |-> inp.primary_type,
                         selected_speaker_id |-> selected_speaker_id,
                         transcription |-> transcription])
    /\ posted' = 0
    /\ UNCHANGED <<uploaded_file, secrets>>

\* lines 449-453: the Delete Segment button of the i-th rendered segment,
\* then the rerun
DeleteSegment(i) ==
    /\ session_state.page_state = "annotation"
    /\ "delete" \in widgets
    /\ \E listed \in {SortSegments(SyncAudio(session_state, uploaded_file))} :
          /\ i \in 1..Len(listed.segments)
          /\ \E seg \in {listed.segments[i]} :
             \E kept \in {SelectSeq(listed.segments,
                                    LAMBDA s : s.segmentId # seg.segmentId)} :
             \E after \in {Rerun([listed EXCEPT !.segments = kept], uploaded_file)} :
                /\ session_state' = after
                /\ shown' = ShownBy(after)
                /\ final_json' = DocBy(after)
                /\ widgets' = WidgetsBy(after, uploaded_file, FALSE)
    /\ posted' = 0
    /\ message' = NoMsg
    /\ last' = Interaction("delete", i)
    /\ UNCHANGED <<uploaded_file, secrets, uuid_count>>

----------------------------------------------------------------------------
(* The JSON editor *)

\* What the model does to the text of the editor before Apply JSON Changes:
\* nothing; delete the final closing brace; delete the "speakers" member;
\* empty the "speakers" list; delete the "value" member; write the segments
\* in reverse order; point the first segment at a speaker id nobody has.
Edits == {"none", "truncate", "noSpeakers", "emptySpeakers", "noValue",
          "reverseSegments", "retarget"}

Without(d, k) == [x \in DOMAIN d \ {k} |-> d[x]]
Reverse(q) == [i \in 1..Len(q) |-> q[Len(q) + 1 - i]]

EditedDoc(doc, edit) ==
    CASE edit = "noSpeakers" -> [doc EXCEPT !.value = Without(@, "speakers")]
      [] edit = "emptySpeakers" -> [doc EXCEPT !.value.speakers = <<>>]
      [] edit = "noValue" -> Without(doc, "value")
      [] edit = "reverseSegments" -> [doc EXCEPT !.value.segments = Reverse(@)]
      [] edit = "retarget" ->
            IF doc.value.segments = <<>> THEN doc
            ELSE [doc EXCEPT !.value.segments[1].speakerId = "S9"]
      [] OTHER -> doc

\* the text in the editor when the button is clicked
EditedText(json_string, doc, edit) ==
    CASE edit = "none" -> json_string
      [] edit = "truncate" -> SubSeq(json_string, 1, Len(json_string) - 1)
      [] OTHER -> Dumps(EditedDoc(doc, edit))

\* ApplyHandler that empties the two lists before it parses
ApplyHandler_ClearsFirst(ss, edited_json_string) ==
    LET parsed == Loads(edited_json_string)
        cleared == [ss EXCEPT !.speakers = <<>>, !.segments = <<>>]
    IN IF parsed.ok
       THEN LET value_section == Get(parsed.val, "value", <<>>)
            IN [ss |-> [ss EXCEPT
                            !.speakers = Get(value_section, "speakers", <<>>),
                            !.segments = Get(value_section, "segments", <<>>)],
                next |-> "rerun",
                message |-> Msg("success", "JSON changes have been applied!")]
       ELSE [ss |-> cleared, next |-> "continue",
             message |-> Msg("error", "Invalid JSON format")]

\* ApplyHandler that reads the segments from the document's top level
ApplyHandler_TopLevelSegments(ss, edited_json_string) ==
    LET parsed == Loads(edited_json_string)
    IN IF parsed.ok
       THEN LET value_section == Get(parsed.val, "value", <<>>)
            IN [ss |-> [ss EXCEPT
                            !.speakers = Get(value_section, "speakers", <<>>),
                            !.segments = Get(parsed.val, "segments", <<>>)],
                next |-> "rerun",
                message |-> Msg("success", "JSON changes have been applied!")]
       ELSE [ss |-> ss, next |-> "continue",
             message |-> Msg("error", "Invalid JSON format")]

\* lines 475-484: the handler of the Apply JSON Changes button
ApplyHandler(ss, edited_json_string) ==
    LET parsed == Loads(edited_json_string)
    IN IF parsed.ok
       THEN LET edited_data == parsed.val
                value_section == Get(edited_data, "value", <<>>)
            IN [ss |-> [ss EXCEPT
                            !.speakers = Get(value_section, "speakers", <<>>),
                            !.segments = Get(value_section, "segments", <<>>)],
                next |-> "rerun",
                message |-> Msg("success", "JSON changes have been applied!")]
       ELSE [ss |-> ss, next |-> "continue",
             message |-> Msg("error", "Invalid JSON format")]

\* The Apply JSON Changes button is clicked; the editor is there only in a
\* run that builds the document (line 455).
ApplyJson(edit) ==
    /\ session_state.page_state = "annotation"
    /\ "json_editor" \in widgets
    /\ \E listed \in {SortSegments(SyncAudio(session_state, uploaded_file))} :
       \E doc \in {BuildFinalJson(listed)} :
          /\ doc # None
          /\ \E json_string \in {Dumps(doc[1])} :
             \E h \in {ApplyHandler(listed, EditedText(json_string, doc[1], edit))} :
             \E after \in {IF h.next = "rerun" THEN Rerun(h.ss, uploaded_file)
                            ELSE h.ss} :
                /\ session_state' = after
                /\ shown' = ShownBy(after)
                /\ final_json' = DocBy(after)
                /\ widgets' = WidgetsBy(after, uploaded_file, FALSE)
                /\ message' = h.message
    /\ posted' = 0
    /\ last' = Interaction("apply", edit)
    /\ UNCHANGED <<uploaded_file, secrets, uuid_count>>

----------------------------------------------------------------------------
(* Specification *)

AddInput(range, primary_type, speaker_pick, typed) ==
    [start_time |-> range[1], end_time |-> range[2], primary_type |-> primary_type,
     loudness_level |-> "Normal", speaker_pick |-> speaker_pick, typed |-> typed]

\* The segment forms the model submits: three with start < end, of which
\* the first takes the pending transcription as its content, then an
\* inverted range, an empty one and a start that is not a number.
AddInputs ==
    {AddInput(<<"0.0", "5.000">>, "Speech", 1, None),
     AddInput(<<"2.0", "5.000">>, "Noise", 2, Some("typed by hand")),
     AddInput(<<"-1.0", "2.0">>, "Speech", 2, Some("typed by hand")),
     AddInput(<<"5.000", "2.0">>, "Speech", 1, None),
     AddInput(<<"2.0", "2.0">>, "Speech", 1, None),
     AddInput(<<"abc", "2.0">>, "Speech", 1, None)}

Uploads(files) == {None} \cup {Some(f) : f \in files}
Answers(responses) == {None} \cup {Some(r) : r \in responses}

\* the session with every way of adding segments and of editing the JSON,
\* one audio file and two answers of the service
Next ==
    \/ \E form \in Forms : SubmitMetadata(form)
    \/ BackToMetadata
    \/ \E up \in Uploads({[name |-> "a.wav", bytes |-> "riff-1"]}) : Upload(up)
    \/ \E answer \in Answers({r \in Responses :
                                   \/ r.kind = "timeout"
                                   \/ r.kind = "http" /\ r.status_code = 200
                                        /\ r.json = TextBody("hello")}) :
          Transcribe("0.0", "5.000", answer)
    \/ \E inp \in AddInputs : AddSegment(inp)
    \/ \E i \in 1..MaxSegments : DeleteSegment(i)
    \/ \E edit \in {"none", "truncate", "reverseSegments"} : ApplyJson(edit)

Spec == Init /\ [][Next]_vars

\* the session with every time range and every answer of the service, every
\* file, and segments added with one valid form only
NextTranscription ==
    \/ \E form \in Forms : SubmitMetadata(form)
    \/ BackToMetadata
    \/ \E up \in Uploads(Files) : Upload(up)
    \/ \E range \in TimeRanges, answer \in Answers(Responses) :
          Transcribe(range[1], range[2], answer)
    \/ \E inp \in {i \in AddInputs :
                        i.start_time \in {"5.000", "abc"}
                        \/ (i.start_time = "2.0" /\ i.typed # None)} : AddSegment(inp)
    \/ \E i \in 1..MaxSegments : DeleteSegment(i)
    \/ \E edit \in {"none", "truncate"} : ApplyJson(edit)

SpecTranscription == Init /\ [][NextTranscription]_vars

\* What the model types into the form when it comes back to it: the form
\* of the first visit, one with another language code and one head only,
\* and one whose Speaker ID is left blank
SessionForms ==
    Forms \cup {[lang_short |-> "mi_NZ", speaker_ids |-> <<"S1">>],
                [lang_short |-> "en_NZ", speaker_ids |-> <<"">>]}

\* the session without the JSON editor's Apply button: every form, one
\* audio file, one answer of the service, segments of either speaker
NextSession ==
    \/ \E form \in SessionForms : SubmitMetadata(form)
    \/ BackToMetadata
    \/ \E up \in Uploads({[name |-> "a.wav", bytes |-> "riff-1"]}) : Upload(up)
    \/ \E answer \in Answers({r \in Responses :
                                   r.kind = "http" /\ r.status_code = 200
                                      /\ r.json = TextBody("hello")}) :
          Transcribe("0.0", "5.000", answer)
    \/ \E inp \in {i \in AddInputs : i.start_time \in {"0.0", "2.0", "abc"}} :
          AddSegment(inp)
    \/ \E i \in 1..MaxSegments : DeleteSegment(i)

SpecSession == Init /\ [][NextSession]_vars

\* the session with the edits of the JSON text that take members out of
\* the document or point a segment elsewhere, one form, one audio file
NextEditor ==
    \/ \E form \in Forms : SubmitMetadata(form)
    \/ BackToMetadata
    \/ \E up \in Uploads({[name |-> "a.wav", bytes |-> "riff-1"]}) : Upload(up)
    \/ \E answer \in Answers({r \in Responses :
                                   r.kind = "http" /\ r.status_code = 200
                                      /\ r.json = TextBody("hello")}) :
          Transcribe("0.0", "5.000", answer)
    \/ \E inp \in {i \in AddInputs : i.start_time \in {"0.0", "2.0"}} : AddSegment(inp)
    \/ \E i \in 1..MaxSegments : DeleteSegment(i)
    \/ \E edit \in {"none", "noSpeakers", "emptySpeakers", "noValue", "retarget"} :
          ApplyJson(edit)

SpecEditor == Init /\ [][NextEditor]_vars

----------------------------------------------------------------------------
(* Properties *)

LastStart == ParseFloat(last.arg.start_time)
LastEnd == ParseFloat(last.arg.end_time)
LastNumeric == IsNumeric(last.arg.start_time) /\ IsNumeric(last.arg.end_time)

RemoveAt(q, i) == SubSeq(q, 1, i - 1) \o SubSeq(q, i + 1, Len(q))

IsSortedByStart(segs) ==
    \A i \in 1..Len(segs), j \in 1..Len(segs) : i < j => segs[i].start <= segs[j].start

\* C1: Add Segment with a numeric range where start >= end is rejected: the
\* segment list (and so its length) is as before, the pending transcription
\* text is not cleared, and the error is reported.
C1_InvertedRangeRejected ==
    [][(last'.op = "add" /\ LastNumeric' /\ LastStart' >= LastEnd')
        => /\ session_state'.segments = session_state.segments
           /\ session_state'.transcription_content = session_state.transcription_content
           /\ uuid_count' = uuid_count
           /\ message'.level = "error"]_vars

\* C1 happens: an inverted or empty range was entered with a speaker
\* selected, a segment in the list and a transcription pending.
C1_Witness ==
    /\ last.op = "add"
    /\ last.arg.selected_speaker_id # None
    /\ LastNumeric /\ LastStart >= LastEnd
    /\ session_state.segments # <<>>
    /\ session_state.transcription_content = "hello"
    /\ message = Msg("error", "Start time must be less than end time!")

\* C2: after a successful Add Segment (speaker selected, numeric times,
\* start < end) the document the page then builds holds the segments of
\* before and exactly one more, which carries the entered start, end,
\* primary type and the selected speaker; from an empty list, with "S1" and
\* 0.0/5.0, value.segments has length 1 with start 0.0 and end 5.0.
C2_AddedSegmentExported ==
    [][(/\ last'.op = "add"
        /\ last'.arg.selected_speaker_id # None
        /\ LastNumeric' /\ LastStart' < LastEnd')
        => /\ final_json' # None
           /\ LET exported == final_json'[1].value.segments
              IN /\ Len(exported) = Len(session_state.segments) + 1
                 /\ \E i \in 1..Len(exported) :
                       /\ RemoveAt(exported, i) = session_state.segments
                       /\ exported[i].start = LastStart'
                       /\ exported[i].end = LastEnd'
                       /\ exported[i].primaryType = last'.arg.primary_type
                       /\ exported[i].speakerId = last'.arg.selected_speaker_id[1]
                 /\ (/\ session_state.segments = <<>>
                     /\ last'.arg.start_time = "0.0" /\ last'.arg.end_time = "5.000")
                       => Len(exported) = 1 /\ exported[1].start = 0
                            /\ exported[1].end = 5000]_vars

\* C2 happens: the spec's scenario, one segment 0.0-5.0 of speaker "S1".
C2_Witness ==
    /\ last.op = "add"
    /\ last.arg.start_time = "0.0" /\ last.arg.end_time = "5.000"
    /\ last.arg.selected_speaker_id = Some("S1")
    /\ final_json # None
    /\ Len(final_json[1].value.segments) = 1
    /\ final_json[1].value.segments[1].start = 0
    /\ final_json[1].value.segments[1].end = 5000
    /\ final_json[1].value.segments[1].speakerId = "S1"

\* C3: Apply JSON Changes on a text that does not parse reports the error
\* and leaves the whole session state (speakers, segments, metadata, page
\* state, pending transcription, audio) as it was.
C3_ParseFailureMutatesNothing ==
    [][(last'.op = "apply" /\ final_json # None)
        => \A json_string \in {Dumps(final_json[1])} :
           \A edited \in {EditedText(json_string, final_json[1], last'.arg)} :
              ~Loads(edited).ok
                 => /\ session_state' = session_state
                    /\ message' = Msg("error", "Invalid JSON format")]_vars

\* C3 happens: the text without its closing brace was applied with two
\* segments in the list.
C3_Witness ==
    /\ last.op = "apply"
    /\ last.arg = "truncate"
    /\ Len(session_state.segments) = 2
    /\ message = Msg("error", "Invalid JSON format")

\* C4: applying the unedited text of the document leaves the speaker list
\* and the segment list as they were, element for element.
C4_RoundTrip ==
    [][(last'.op = "apply" /\ last'.arg = "none")
        => /\ session_state'.speakers = session_state.speakers
           /\ session_state'.segments = session_state.segments
           /\ message'.level = "success"]_vars

\* C4 happens: the unedited text was applied with two speakers and two
\* segments of different start times.
C4_Witness ==
    /\ last.op = "apply"
    /\ last.arg = "none"
    /\ Len(session_state.speakers) = 2
    /\ Len(session_state.segments) = 2
    /\ session_state.segments[1].start < session_state.segments[2].start
    /\ message.level = "success"

FailedAnswer(answer) ==
    /\ answer # None
    /\ \/ answer[1].kind \in {"timeout", "neterr"}
       \/ /\ answer[1].kind = "http"
          /\ \/ answer[1].status_code # 200
             \/ ~Truthy(Get(answer[1].json, "candidates", <<>>))

\* the click passed the checks on its input and on the key
Attempted ==
    /\ last.op = "transcribe"
    /\ LastNumeric /\ LastStart < LastEnd /\ LastStart >= 0
    /\ secrets # None

\* C6: a failed transcription attempt (status other than 200, timeout,
\* network error, audio that does not decode, 200 without candidates)
\* reports an error and leaves the whole session state as it was, the
\* pending transcription included; one click issues at most one request.
C6_FailedAttemptKeepsState ==
    [][(/\ Attempted'
        /\ \/ FailedAnswer(last'.arg.answer)
           \/ ~Decodable(session_state.current_audio[1].bytes))
        => /\ session_state' = session_state
           /\ last'.arg.transcription = None
           /\ message'.level = "error"
           /\ posted' = IF Decodable(session_state.current_audio[1].bytes) THEN 1 ELSE 0]_vars

\* C6 happens: status 429 was answered while "hello" was pending.
C6_Witness ==
    /\ Attempted
    /\ last.arg.answer # None
    /\ last.arg.answer[1].kind = "http"
    /\ last.arg.answer[1].status_code = 429
    /\ posted = 1
    /\ session_state.transcription_content = "hello"
    /\ message.level = "error"

\* the text of the first part of the first candidate of a 200 answer
HasText(answer) ==
    /\ answer # None
    /\ answer[1].kind = "http"
    /\ answer[1].status_code = 200
    /\ Truthy(Get(answer[1].json, "candidates", <<>>))
    /\ Truthy(Get(Get(answer[1].json.candidates[1], "content", <<>>), "parts", <<>>))

ReturnedText(answer) == Strip(answer[1].json.candidates[1].content.parts[1].text)

\* C7: on a successful response the pending transcription becomes "" when
\* the returned text is "[SILENCE]", "[NOISE]" when it is "[NOISE]", and the
\* returned (stripped) text otherwise.
C7_StoredTranscript ==
    [][(Attempted' /\ HasText(last'.arg.answer))
        => session_state'.transcription_content =
              IF ReturnedText(last'.arg.answer) = "[SILENCE]" THEN ""
              ELSE ReturnedText(last'.arg.answer)]_vars

\* a 200 answer without candidate text: no candidates, or a first candidate
\* without content parts
NoCandidateText(answer) ==
    /\ answer # None
    /\ answer[1].kind = "http"
    /\ answer[1].status_code = 200
    /\ ~HasText(answer)

\* C8 as claimed: every 200 answer without candidate text is the "no
\* content" outcome: no error is reported and the call does not return None.
C8_NoCandidateTextIsNoContent ==
    [][(Attempted' /\ NoCandidateText(last'.arg.answer))
        => /\ message'.level # "error"
           /\ last'.arg.transcription # None]_vars

\* C8 amended: a 200 answer whose candidates list is not empty and whose
\* first candidate has no content parts is the "no content" outcome (a
\* warning, "[NO_CONTENT]" returned, the pending transcription emptied); a
\* 200 answer with no or an empty candidates list is reported as an error and
\* the call returns None.
C8_NoPartsIsNoContent ==
    [][(Attempted' /\ NoCandidateText(last'.arg.answer))
        => IF Truthy(Get(last'.arg.answer[1].json, "candidates", <<>>))
           THEN /\ last'.arg.transcription = Some("[NO_CONTENT]")
                /\ message'.level = "warning"
                /\ session_state'.transcription_content = ""
           ELSE /\ last'.arg.transcription = None
                /\ message'.level = "error"
                /\ session_state' = session_state]_vars

\* C8 happens: a candidate with an empty parts list was answered, the page
\* warned and the pending transcription is empty.
C8_Witness ==
    /\ Attempted
    /\ NoCandidateText(last.arg.answer)
    /\ last.arg.answer[1].json = [candidates |-> <<[content |-> [parts |-> <<>>]]>>]
    /\ message.level = "warning"
    /\ session_state.transcription_content = ""

\* C9: without an API key a Transcribe click issues no request and changes
\* no session state; a click that passes the checks on its input reports
\* the missing key.
C9_NoKeyNoRequest ==
    [][(last'.op = "transcribe" /\ secrets = None)
        => /\ posted' = 0
           /\ last'.arg.answer = None
           /\ session_state' = session_state
           /\ message'.level = "error"
           /\ (LastNumeric' /\ LastStart' < LastEnd' /\ LastStart' >= 0)
                => message'.text = "GEMINI_API_KEY not found. Please add it to your Streamlit secrets."]_vars

\* C9 happens: a valid range was entered for a decodable file without a key.
C9_Witness ==
    /\ last.op = "transcribe"
    /\ secrets = None
    /\ LastNumeric /\ LastStart < LastEnd /\ LastStart >= 0
    /\ Decodable(session_state.current_audio[1].bytes)
    /\ posted = 0
    /\ message.text = "GEMINI_API_KEY not found. Please add it to your Streamlit secrets."

\* C10: Transcribe and Add Segment both reject a range with start < 0 (and
\* start < end): no request is issued and no segment is appended.
C10_NegativeStartRejected ==
    [][(/\ last'.op \in {"transcribe", "add"}
        /\ LastNumeric' /\ LastStart' < 0 /\ LastStart' < LastEnd')
        => /\ posted' = 0
           /\ session_state'.segments = session_state.segments
           /\ message'.level = "error"]_vars

\* every segment's speakerId is the speakerId of a speaker of the list
Referenced(ss) ==
    \A i \in 1..Len(ss.segments) :
       \E j \in 1..Len(ss.speakers) :
          ss.segments[i].speakerId = ss.speakers[j].speakerId

\* C11: once the metadata form has been submitted, no operation other than
\* Apply JSON Changes (upload, transcribe, add, delete, Back to Metadata,
\* another submission of the form) changes the stored metadata or the
\* speaker list.
C11_MetadataSetOnce ==
    [][(Truthy(session_state.metadata) /\ last'.op # "apply")
        => /\ session_state'.metadata = session_state.metadata
           /\ session_state'.speakers = session_state.speakers]_vars

\* C12: in every state reached without Apply JSON Changes, every segment's
\* speakerId is the speakerId of some speaker of the current speaker list.
C12_SegmentsReferenceSpeakers == Referenced(session_state)

\* C13: whenever the session is in the annotation state, after any sequence
\* of add, delete and Apply JSON Changes operations (an applied document
\* without speakers or with an empty speakers list included), the document
\* is built and the JSON editor and the download are offered.
C13_DocumentOnDemand ==
    (/\ session_state.page_state = "annotation"
     /\ last.op \in {"submit", "upload", "add", "delete", "apply"})
       => /\ final_json # None
          /\ {"json_editor", "download"} \subseteq widgets

\* C14: whenever the uploader holds a file, after any sequence of uploads
\* (a file replaced by another one of the same name included), the stored
\* current_audio bytes, which Transcribe and the player use, are the bytes
\* of the file in the uploader.
C14_AudioIsUploadedFile ==
    (session_state.page_state = "annotation" /\ uploaded_file # None)
       => /\ session_state.current_audio # None
          /\ session_state.current_audio[1].bytes = uploaded_file[1].bytes

====
